---- MODULE Spec2Model ----
(***************************************************************************)
(* Gamesbot: the result ingestion handler of main_bot.py, the latest game  *)
(* number table of database.py and the role rules of role_manager.py.      *)
(*                                                                         *)
(* The bot runs on one asyncio event loop: a handler runs without          *)
(* interruption from one `await` to the next, and all sqlite calls are     *)
(* synchronous.  `running` is the handler that holds the loop; the other   *)
(* handlers can only move when it is 0.  The process can stop at any       *)
(* point (Crash) and be started again (OnReady); the sqlite file and the   *)
(* guild's roles survive, the handlers in flight do not.                   *)
(*                                                                         *)
(* Spec and SpecSeq take each message as the game and the puzzle index the *)
(* handler sees.  SpecParse calls the parsers and matchers of              *)
(* score_parser.py on message texts; SpecDispatch posts texts in the       *)
(* scores channel and runs on_message with the matchers and parsers.       *)
(* SpecLive is the channel scenario with sqlite errors and a fair event     *)
(* loop; SpecNoRole is the channel scenario in a guild without player      *)
(* roles.  SpecRoles runs role_manager.py behind line 137 of main_bot.py.  *)
(***************************************************************************)
EXTENDS Integers, Sequences, FiniteSets, Bags, TLC

VARIABLES
    up,                   \* the process is running and on_ready has run
    running,              \* id of the handler that holds the event loop, or 0
    handlers,             \* handlers[id]: the handler of the id-th game message
    latest_game_numbers,  \* table latest_game_numbers: game_name -> latest_number
    scores,               \* the rows of the *_scores tables, a bag
    holders,              \* guild: role name -> the members who hold the role
    channel,              \* channel[id]: the replies sent to message id
    introductions,        \* ids introduced in their game's chat channel
    crashes,              \* process stops so far
    failures,             \* sqlite errors so far
    message,              \* message.content of the last message delivered
    commands,             \* messages handed to bot.process_commands
    returned              \* the value a parser or matcher call returned

vars == <<up, running, handlers, latest_game_numbers, scores, holders,
          channel, introductions, crashes, failures, message, commands,
          returned>>

(* ---------------------------- bounds ----------------------------------- *)
MaxMessages == 2
MaxIndex == 2
MaxCrashes == 1
MaxFailures == 1
\* Messages of the sequential scenario (SpecSeq).
SeqMessages == 4
\* Messages of the channel scenario (SpecDispatch).
DispatchMessages == 2
\* Lines of a mixed text, guess lines of a Connections text, squares of a
\* Framed text (SpecParse).
MaxLines == 2
MaxGuesses == 4
MaxReveal == 7

Users == {"ann", "bob"}

(* ------------------------- game_config.py ------------------------------ *)
\* The registry: the data fields of the five entries of GAME_CONFIGS.
GAME_CONFIGS ==
    [wordle      |-> [name |-> "Wordle",
                      chat_channel_name |-> "wordle-chat",
                      player_role_name |-> "wordle-player"],
     connections |-> [name |-> "Connections",
                      chat_channel_name |-> "connections-chat",
                      player_role_name |-> "connections-player"],
     framed      |-> [name |-> "Framed",
                      chat_channel_name |-> "framed-chat",
                      player_role_name |-> "framed-player"],
     gisnep      |-> [name |-> "Gisnep",
                      chat_channel_name |-> "gisnep-chat",
                      player_role_name |-> "gisnep-player"],
     bandle      |-> [name |-> "Bandle",
                      chat_channel_name |-> "bandle-chat",
                      player_role_name |-> "bandle-player"]]

GameKeys == DOMAIN GAME_CONFIGS

\* GAME_CONFIGS.items() (main_bot.py:56): a dict iterates in the order in
\* which its keys are written.
GameOrder == <<"wordle", "connections", "framed", "gisnep", "bandle">>

\* The games of the messages of Spec and SpecSeq; the five entries bind the
\* same tracker functions, and two games show what one game's messages do
\* to another game's state.
SubmittedGames == {"wordle", "connections"}

GameNames == {GAME_CONFIGS[k].name : k \in GameKeys}

RoleNames == {GAME_CONFIGS[k].player_role_name : k \in GameKeys}

\* main_bot.py:120 reads game_config["game_number_key"]; no entry of
\* GAME_CONFIGS in src/game_config.py carries that key.  It is taken to name
\* the field in which the game's parser returns the puzzle index.
game_number_key(game_key) ==
    IF game_key = "connections" THEN "puzzle_number" ELSE "game_number"

(* ------------------------- score_parser.py ----------------------------- *)
\* A message of the scores channel that the matcher of game_key accepts, as
\* far as the handler looks at it: the puzzle index its text carries and
\* whether the game's parser returns a result for it.
Contents ==
    [index : 0..MaxIndex, parses : {TRUE}] \cup {[index |-> 0, parses |-> FALSE]}

\* parse_wordle_score / parse_connections_result: the fields of the result
\* that the handler and the tracker read.
parse_function(game_key, content) ==
    IF game_key = "connections"
    THEN [puzzle_number |-> content.index]
    ELSE [game_number |-> content.index]

(* ----------------- score_parser.py: message texts ---------------------- *)
\* A message text is the sequence of its lines (split on "\n") and a line
\* the sequence of its blank-separated tokens: a word, a number with or
\* without "#" ("12", "#12"), a ratio ("3/6", "X/6", "3/6*", "40/99"), a
\* time ("1:05") or a run of emoji squares.
Word(w) == [t |-> "word", w |-> w]

Num(hash, n) == [t |-> "num", hash |-> hash, n |-> n]

Ratio(x, a, m, star) == [t |-> "ratio", x |-> x, a |-> a, m |-> m, star |-> star]

Time(m, s) == [t |-> "time", m |-> m, s |-> s]

Squares(s) == [t |-> "squares", s |-> s]

\* Python's None, and a value that is not None.
None == [none |-> TRUE]

Some(v) == [value |-> v]

\* str.lower() on the words of the texts.
lower(w) ==
    CASE w = "Wordle" -> "wordle"
      [] w = "Connections" -> "connections"
      [] w = "Framed" -> "framed"
      [] w = "#Gisnep" -> "#gisnep"
      [] w = "Bandle" -> "bandle"
      [] w = "Puzzle" -> "puzzle"
      [] w = "In" -> "in"
      [] OTHER -> w

IsWord(tok, w) == tok.t = "word" /\ tok.w = w

\* A word matched under re.IGNORECASE.
IsWordIgnoreCase(tok, w) == tok.t = "word" /\ lower(tok.w) = lower(w)

RECURSIVE FlatTokens(_)
\* The tokens of the text in order, line ends being white space (\s).
FlatTokens(text) ==
    IF text = <<>> THEN <<>> ELSE Head(text) \o FlatTokens(Tail(text))

\* `keyword in message_content.lower()`.
ContainsKeyword(text, keyword) ==
    \E i \in DOMAIN FlatTokens(text) :
        LET tok == FlatTokens(text)[i] IN tok.t = "word" /\ lower(tok.w) = keyword

Least(S) == CHOOSE i \in S : \A j \in S : i <= j

Greatest(S) == CHOOSE i \in S : \A j \in S : j <= i

\* The first decimal digit of a number below 100.
FirstDigit(m) == IF m >= 10 THEN m \div 10 ELSE m

\* score_parser.py:5  Wordle\s+(?:#?\s*)(\d+(?:,\d+)?)\s+([0-6X])/6(\*?)
WORDLE_PATTERN(text) ==
    LET flat == FlatTokens(text)
        at == {i \in 1..(Len(flat) - 2) :
                 /\ IsWordIgnoreCase(flat[i], "Wordle")
                 /\ flat[i + 1].t = "num"
                 /\ flat[i + 2].t = "ratio"
                 /\ flat[i + 2].x \/ flat[i + 2].a <= 6
                 /\ FirstDigit(flat[i + 2].m) = 6}
    IN IF at = {} THEN None
       ELSE LET i == Least(at) IN
            [number |-> flat[i + 1].n, x |-> flat[i + 2].x,
             digit |-> flat[i + 2].a,
             star |-> flat[i + 2].star /\ flat[i + 2].m = 6]

\* score_parser.py:6  Skill\s+(\d+)/99\s+Luck\s+(\d+)/99
SKILL_LUCK_PATTERN(text) ==
    LET flat == FlatTokens(text)
        IsOf99(tok) == tok.t = "ratio" /\ ~tok.x /\ tok.m = 99
        at == {i \in 1..(Len(flat) - 3) :
                 /\ IsWordIgnoreCase(flat[i], "Skill")
                 /\ IsOf99(flat[i + 1]) /\ ~flat[i + 1].star
                 /\ IsWordIgnoreCase(flat[i + 2], "Luck")
                 /\ IsOf99(flat[i + 3])}
    IN IF at = {} THEN None
       ELSE LET i == Least(at) IN
            [skill |-> flat[i + 1].a, luck |-> flat[i + 3].a]

\* score_parser.py:7  Connections\nPuzzle #(\d+)  (case matters)
CONNECTIONS_PATTERN(text) ==
    LET at == {i \in 1..(Len(text) - 1) :
                 /\ text[i] # <<>>
                 /\ IsWord(text[i][Len(text[i])], "Connections")
                 /\ Len(text[i + 1]) >= 2
                 /\ IsWord(text[i + 1][1], "Puzzle")
                 /\ text[i + 1][2].t = "num" /\ text[i + 1][2].hash}
    IN IF at = {} THEN None
       ELSE [number |-> text[Least(at) + 1][2].n]

\* score_parser.py:8  Framed\s+#?(\d+)
FRAMED_PATTERN(text) ==
    LET flat == FlatTokens(text)
        at == {i \in 1..(Len(flat) - 1) :
                 IsWordIgnoreCase(flat[i], "Framed") /\ flat[i + 1].t = "num"}
    IN IF at = {} THEN None ELSE [number |-> flat[Least(at) + 1].n]

\* The positions j of a line at which "in M:SS" stands after a "#Gisnep".
GisnepTimes(line) ==
    {j \in 2..(Len(line) - 1) :
        /\ \E i \in 1..(j - 1) : IsWordIgnoreCase(line[i], "#Gisnep")
        /\ IsWordIgnoreCase(line[j], "in")
        /\ line[j + 1].t = "time"}

\* score_parser.py:9  #Gisnep.*in (\d{1,2}:\d{2})  ("." stays on the line,
\* ".*" is greedy)
GISNEP_PATTERN(text) ==
    LET at == {l \in DOMAIN text : GisnepTimes(text[l]) # {}}
    IN IF at = {} THEN None
       ELSE LET line == text[Least(at)] IN
            [time |-> line[Greatest(GisnepTimes(line)) + 1]]

\* score_parser.py:10  No\. (\d+)
GISNEP_NUMBER_PATTERN(text) ==
    LET Hits(line) == {i \in 1..(Len(line) - 1) :
                          /\ IsWordIgnoreCase(line[i], "No.")
                          /\ line[i + 1].t = "num" /\ ~line[i + 1].hash}
        at == {l \in DOMAIN text : Hits(text[l]) # {}}
    IN IF at = {} THEN None
       ELSE LET line == text[Least(at)] IN
            [number |-> line[Least(Hits(line)) + 1].n]

\* score_parser.py:11  Bandle\s+#?(\d+)\s+(\d|X)/(\d)
BANDLE_PATTERN(text) ==
    LET flat == FlatTokens(text)
        at == {i \in 1..(Len(flat) - 2) :
                 /\ IsWordIgnoreCase(flat[i], "Bandle")
                 /\ flat[i + 1].t = "num"
                 /\ flat[i + 2].t = "ratio"
                 /\ flat[i + 2].x \/ flat[i + 2].a <= 9}
    IN IF at = {} THEN None
       ELSE LET i == Least(at) IN
            [number |-> flat[i + 1].n, x |-> flat[i + 2].x,
             digit |-> flat[i + 2].a, max |-> FirstDigit(flat[i + 2].m)]

BONUS_PATTERN_never(text) == None

\* score_parser.py:12  Bonus Rounds: (\d+)/(\d+)
BONUS_PATTERN(text) ==
    LET Hits(line) == {i \in 1..(Len(line) - 2) :
                          /\ IsWordIgnoreCase(line[i], "Bonus")
                          /\ IsWordIgnoreCase(line[i + 1], "Rounds:")
                          /\ line[i + 2].t = "ratio" /\ ~line[i + 2].x}
        at == {l \in DOMAIN text : Hits(text[l]) # {}}
    IN IF at = {} THEN None
       ELSE LET tok == text[Least(at)][Least(Hits(text[Least(at)])) + 2] IN
            [completed |-> tok.a, total |-> tok.m]

(* ------------------ score_parser.py: the parsers ----------------------- *)
\* An exception leaves the call.
Raise(e) == [raises |-> e]

RECURSIVE SquaresOf(_)
\* The squares of a sequence of tokens, in order.
SquaresOf(toks) ==
    IF toks = <<>> THEN <<>>
    ELSE (IF Head(toks).t = "squares" THEN Head(toks).s ELSE <<>>)
         \o SquaresOf(Tail(toks))

\* A line that is not empty and holds only the squares of `alphabet`.
IsGridLine(line, alphabet) ==
    /\ Len(line) = 1
    /\ line[1].t = "squares"
    /\ line[1].s # <<>>
    /\ \A i \in DOMAIN line[1].s : line[1].s[i] \in alphabet

\* parse_wordle_score, score_parser.py:14-56.
parse_wordle_score(message_content) ==
    LET wordle_match == WORDLE_PATTERN(message_content)
        skill_luck_match == SKILL_LUCK_PATTERN(message_content)
        attempts == IF wordle_match.x THEN 7 ELSE wordle_match.digit
        IsGrid(line) == IsGridLine(line, {"green", "yellow", "white"})
    IN IF wordle_match = None THEN None
       ELSE [game_number |-> wordle_match.number,
             attempts |-> attempts,
             solved |-> attempts <= 6,
             hard_mode |-> wordle_match.star,
             skill |-> IF skill_luck_match = None THEN None
                       ELSE Some(skill_luck_match.skill),
             luck |-> IF skill_luck_match = None THEN None
                      ELSE Some(skill_luck_match.luck),
             grid |-> SelectSeq(message_content, IsGrid)]

base_points == [purple |-> 4, blue |-> 3, green |-> 2, yellow |-> 1]

RECURSIVE SumPoints(_)
\* score_parser.py:135-137.
SumPoints(guesses) ==
    IF guesses = <<>> THEN 0
    ELSE (IF Head(guesses) \in DOMAIN base_points
          THEN base_points[Head(guesses)] ELSE 0) + SumPoints(Tail(guesses))

\* calculate_connections_score, score_parser.py:101-154.
calculate_connections_score(guesses) ==
    LET correct == {i \in DOMAIN guesses : guesses[i] \in DOMAIN base_points}
        first_group == IF correct = {} THEN "" ELSE guesses[Least(correct)]
        correct_guesses == Cardinality(correct)
        mistake_count == Cardinality({i \in DOMAIN guesses : guesses[i] = "X"})
        order == IF first_group = "purple" THEN 2
                 ELSE IF first_group = "blue" THEN 1 ELSE 0
        completion == IF correct_guesses = 4 /\ mistake_count = 0
                      THEN 5 ELSE 0 - mistake_count
    IN [total_score |-> order + SumPoints(guesses) + completion,
        num_guesses |-> Len(guesses),
        solved_purple_first |-> first_group = "purple",
        solved_blue_first |-> first_group = "blue",
        finished_game |-> correct_guesses = 4,
        correct_guesses |-> correct_guesses,
        mistake_count |-> mistake_count]

\* score_parser.py:82-90: what one line after the header adds to guesses.
\* (A line of four equal characters is always a line of four equal squares
\* in these texts.)
LineGuesses(line) ==
    IF line = <<>> THEN <<>>
    ELSE IF Len(line) = 1 /\ line[1].t = "squares" /\ Len(line[1].s) = 4
         THEN IF \A i \in 1..4 : line[1].s[i] = line[1].s[1]
              THEN <<line[1].s[1]>> ELSE <<"X">>
         ELSE <<"X">>

RECURSIVE Guesses(_)
Guesses(lines) ==
    IF lines = <<>> THEN <<>>
    ELSE LineGuesses(Head(lines)) \o Guesses(Tail(lines))

\* parse_connections_result, score_parser.py:58-99 (line 80 read as
\* `guesses = []`).
parse_connections_result(message_content) ==
    LET lines == message_content
        HasPuzzle(line) ==
            \E i \in 1..(Len(line) - 1) :
                /\ IsWord(line[i], "Puzzle")
                /\ line[i + 1].t = "num" /\ line[i + 1].hash
        guesses == Guesses(SubSeq(lines, 3, Len(lines)))
        score_details == calculate_connections_score(guesses)
    IN IF lines = <<>> \/ lines[1] # <<Word("Connections")>> THEN None
       ELSE IF Len(lines) < 2 THEN Raise("IndexError")
       ELSE IF ~HasPuzzle(lines[2]) THEN None
       ELSE [puzzle_number |->
                 lines[2][Least({i \in 1..(Len(lines[2]) - 1) :
                                    /\ IsWord(lines[2][i], "Puzzle")
                                    /\ lines[2][i + 1].t = "num"
                                    /\ lines[2][i + 1].hash}) + 1].n,
             guesses |-> guesses,
             total_score |-> score_details.total_score,
             num_guesses |-> score_details.num_guesses,
             solved_purple_first |-> score_details.solved_purple_first,
             solved_blue_first |-> score_details.solved_blue_first,
             finished_game |-> score_details.finished_game,
             correct_guesses |-> score_details.correct_guesses,
             mistake_count |-> score_details.mistake_count]

FramedTierOfFive(attempts) ==
    CASE attempts = 1 -> 100 [] attempts = 2 -> 80 [] attempts = 3 -> 60
      [] attempts = 4 -> 40 [] attempts = 5 -> 20 [] OTHER -> 0

\* The tier table of score_parser.py:175.
FramedTier(attempts) ==
    CASE attempts = 1 -> 100 [] attempts = 2 -> 80 [] attempts = 3 -> 60
      [] attempts = 4 -> 40 [] attempts = 5 -> 20 [] attempts = 6 -> 10
      [] OTHER -> 0

\* parse_framed_score, score_parser.py:156-182.
parse_framed_score(message_content) ==
    LET match == FRAMED_PATTERN(message_content)
        guess_sequence ==
            SelectSeq(SquaresOf(FlatTokens(message_content)),
                      LAMBDA c : c \in {"red", "green", "black"})
        greens == {i \in DOMAIN guess_sequence : guess_sequence[i] = "green"}
        solved == greens # {}
        attempts == IF solved THEN Least(greens) ELSE Len(guess_sequence)
    IN IF match = None THEN None
       ELSE [game_number |-> match.number,
             attempts |-> attempts,
             solved |-> solved,
             total_score |-> IF solved THEN FramedTier(attempts) ELSE 0]

\* parse_gisnep_score, score_parser.py:184-206.
parse_gisnep_score(message_content) ==
    LET time_match == GISNEP_PATTERN(message_content)
        game_match == GISNEP_NUMBER_PATTERN(message_content)
        time_str == time_match.time
        parts == IF time_str.t = "time" THEN <<time_str.m, time_str.s>>
                 ELSE <<time_str.n>>
    IN IF time_match = None \/ game_match = None THEN None
       ELSE [game_number |-> game_match.number,
             completion_time |-> IF Len(parts) = 2
                                 THEN parts[1] * 60 + parts[2]
                                 ELSE parts[1]]

\* parse_bandle_score, score_parser.py:208-237.
parse_bandle_score(message_content) ==
    LET match == BANDLE_PATTERN(message_content)
        bonus_match == BONUS_PATTERN(message_content)
        solved == ~match.x
        attempts == IF solved THEN match.digit ELSE match.max + 1
    IN IF match = None THEN None
       ELSE [game_number |-> match.number,
             attempts |-> attempts,
             solved |-> solved,
             total_score |-> IF solved
                             THEN (IF 6 - attempts > 0 THEN 6 - attempts ELSE 0)
                             ELSE 0,
             bonus_completed |-> IF bonus_match = None THEN 0
                                 ELSE bonus_match.completed,
             bonus_total |-> IF bonus_match = None THEN 0
                             ELSE bonus_match.total]

\* score_parser.py:239-257.
is_bandle_message(message_content) ==
    ContainsKeyword(message_content, "bandle")
        /\ BANDLE_PATTERN(message_content) # None

is_gisnep_message(message_content) ==
    ContainsKeyword(message_content, "#gisnep")
        /\ GISNEP_PATTERN(message_content) # None

is_framed_message(message_content) ==
    ContainsKeyword(message_content, "framed")
        /\ FRAMED_PATTERN(message_content) # None

is_wordle_message_keyword(message_content) ==
    ContainsKeyword(message_content, "wordle")

is_wordle_message(message_content) ==
    ContainsKeyword(message_content, "wordle")
        /\ WORDLE_PATTERN(message_content) # None

is_connections_message(message_content) ==
    ContainsKeyword(message_content, "connections")
        /\ CONNECTIONS_PATTERN(message_content) # None

\* config["is_game_message"] and config["parse_function"] of the registry
\* entry game_key (game_config.py:13-14, 26-27, 39-40, 52-53, 65-66).
is_game_message(game_key, content) ==
    CASE game_key = "wordle" -> is_wordle_message(content)
      [] game_key = "connections" -> is_connections_message(content)
      [] game_key = "framed" -> is_framed_message(content)
      [] game_key = "gisnep" -> is_gisnep_message(content)
      [] game_key = "bandle" -> is_bandle_message(content)

parse_message(game_key, content) ==
    CASE game_key = "wordle" -> parse_wordle_score(content)
      [] game_key = "connections" -> parse_connections_result(content)
      [] game_key = "framed" -> parse_framed_score(content)
      [] game_key = "gisnep" -> parse_gisnep_score(content)
      [] game_key = "bandle" -> parse_bandle_score(content)

(* ------------------------- the texts posted ---------------------------- *)
SeqsUpTo(S, n) == UNION {[1..k -> S] : k \in 0..n}

\* Lines of ordinary chat and of result posts, whole and cut.
SampleLines ==
    { <<Word("Wordle"), Num(FALSE, 1), Ratio(FALSE, 3, 6, FALSE)>>,
      <<Word("wordle"), Num(TRUE, 1), Ratio(TRUE, 0, 6, TRUE)>>,
      <<Word("Wordle")>>,
      <<Num(FALSE, 1), Ratio(FALSE, 3, 6, FALSE)>>,
      <<Word("Connections")>>,
      <<Word("hi"), Word("Connections")>>,
      <<Word("Puzzle"), Num(TRUE, 1)>>,
      <<Word("Framed"), Num(TRUE, 1)>>,
      <<Word("#Gisnep"), Word("No."), Num(FALSE, 1), Word("in"), Time(1, 5)>>,
      <<Word("#Gisnep"), Word("in"), Time(1, 5)>>,
      <<Word("#Gisnep"), Word("No."), Num(FALSE, 1), Word("in"), Num(FALSE, 45)>>,
      <<Word("Bandle"), Num(TRUE, 1), Ratio(FALSE, 3, 6, FALSE)>>,
      <<Word("hi")>> }

\* Texts of up to MaxLines such lines.
MixedTexts == SeqsUpTo(SampleLines, MaxLines)

SkillLuckValues == {0, 10, 40, 99}

WordleLine(x, a, star) == <<Word("Wordle"), Num(TRUE, 1), Ratio(x, a, 6, star)>>

SkillLuckLine(s, l) ==
    <<Word("Skill"), Ratio(FALSE, s, 99, FALSE),
      Word("Luck"), Ratio(FALSE, l, 99, FALSE)>>

\* "Wordle #1 a/6", a in 0..6 or X, with or without "*" and the
\* "Skill s/99 Luck l/99" line.
WordleTexts ==
    LET heads == {WordleLine(FALSE, a, st) : a \in 0..6, st \in BOOLEAN}
                 \cup {WordleLine(TRUE, 0, st) : st \in BOOLEAN}
    IN {<<h>> : h \in heads}
       \cup {<<h, SkillLuckLine(sl[1], sl[2])>> :
                h \in heads, sl \in SkillLuckValues \X SkillLuckValues}

\* The lines below the header of a Connections post: four equal squares of
\* a category, or four different squares.
GuessLines ==
    {<<Squares(<<c, c, c, c>>)>> : c \in DOMAIN base_points}
    \cup {<<Squares(<<"purple", "blue", "green", "yellow">>)>>}

ConnectionsTexts ==
    {<<<<Word("Connections")>>, <<Word("Puzzle"), Num(TRUE, 1)>>>> \o g :
        g \in SeqsUpTo(GuessLines, MaxGuesses)}

FramedTexts ==
    {<<<<Word("Framed"), Num(TRUE, 1)>>, <<Squares(r)>>>> :
        r \in SeqsUpTo({"red", "green", "black"}, MaxReveal)}

\* "#Gisnep No. 1 in <token>": M:SS, MM:SS or bare seconds.
GisnepTexts ==
    {<<<<Word("#Gisnep"), Word("No."), Num(FALSE, 1), Word("in"), tok>>>> :
        tok \in {Time(m, sec) : m \in {0, 1, 12}, sec \in {0, 5, 59, 75}}
                \cup {Num(FALSE, 45)}}

\* "Bandle #1 a/m", a a digit or X, with or without "Bonus Rounds: c/t".
BandleTexts ==
    LET heads == {<<Word("Bandle"), Num(TRUE, 1), Ratio(FALSE, a, 6, FALSE)>> :
                     a \in 0..9}
                 \cup {<<Word("Bandle"), Num(TRUE, 1), Ratio(TRUE, 0, m, FALSE)>> :
                          m \in 0..9}
        BonusLine(c, t) == <<Word("Bonus"), Word("Rounds:"),
                             Ratio(FALSE, c, t, FALSE)>>
    IN {<<h>> : h \in heads}
       \cup {<<h, BonusLine(b[1], b[2])>> :
                h \in heads, b \in {<<0, 3>>, <<2, 3>>, <<3, 3>>}}

\* What a player adds below the grid: a blank line, a line of commentary.
TrailingLines == {<<>>, <<Word("hi")>>}

\* Wordle and Connections posts with a grid of up to two lines, and the
\* same posts with one or two trailing lines below the grid.
GridTexts ==
    {<<WordleLine(FALSE, 3, FALSE)>> \o g :
        g \in SeqsUpTo({<<Squares(<<"green", "yellow", "white", "white", "green">>)>>,
                        <<Squares(<<"green", "green", "green", "green", "green">>)>>},
                       2)}
    \cup {<<<<Word("Connections")>>, <<Word("Puzzle"), Num(TRUE, 1)>>>> \o g :
             g \in SeqsUpTo(GuessLines, 2)}

CommentedTexts ==
    {t \o tail : t \in GridTexts, tail \in SeqsUpTo(TrailingLines, 2)}

\* The inputs of the parser and matcher calls.
ParseTexts ==
    MixedTexts \cup WordleTexts \cup ConnectionsTexts \cup FramedTexts
        \cup GisnepTexts \cup BandleTexts \cup CommentedTexts

\* The texts posted in #scores in the channel scenario.
ChannelTexts ==
    {<<l>> : l \in SampleLines}
    \cup { <<<<Word("Connections")>>, <<Word("Puzzle"), Num(TRUE, 1)>>>>,
           <<<<Word("hi"), Word("Connections")>>, <<Word("Puzzle"), Num(TRUE, 1)>>>>,
           <<<<Word("Wordle"), Num(FALSE, 1), Ratio(FALSE, 3, 6, FALSE)>>,
             <<Word("Framed"), Num(TRUE, 1)>>>>,
           <<<<Word("Framed"), Num(TRUE, 1)>>,
             <<Word("Bandle"), Num(TRUE, 1), Ratio(FALSE, 3, 6, FALSE)>>>> }

(* --------------------------- database.py ------------------------------- *)
initialize_db_replacing(table) == [g \in GameNames |-> 0]

\* initialize_db: INSERT OR IGNORE ... VALUES (game, 0) for every game.
initialize_db(table) ==
    [g \in GameNames |-> IF g \in DOMAIN table THEN table[g] ELSE 0]

\* The reconciling read: the largest of the stored number and the numbers
\* of the game's persisted rows.
get_latest_game_number_reconciled(game_name) ==
    LET stored == IF game_name \in DOMAIN latest_game_numbers
                  THEN latest_game_numbers[game_name] ELSE 0
        seen == {stored} \cup
                {r.number : r \in {x \in BagToSet(scores) : x.game = game_name}}
    IN CHOOSE m \in seen : \A n \in seen : n <= m

get_latest_game_number_from_db(game_name) ==
    IF game_name \in DOMAIN latest_game_numbers
    THEN latest_game_numbers[game_name]
    ELSE 0

update_latest_game_number_everywhere(game_name, latest_number) ==
    [g \in (DOMAIN latest_game_numbers) \cup {game_name} |-> latest_number]

update_latest_game_number_lost(game_name, latest_number) ==
    latest_game_numbers

update_latest_game_number_in_db(game_name, latest_number) ==
    [g \in (DOMAIN latest_game_numbers) \cup {game_name} |->
        IF g = game_name THEN latest_number ELSE latest_game_numbers[g]]

attempt_score_with_sixth(attempts) ==
    CASE attempts = 1 -> 100 [] attempts = 2 -> 80 [] attempts = 3 -> 60
      [] attempts = 4 -> 40 [] attempts = 5 -> 20 [] attempts = 6 -> 10
      [] OTHER -> 0

\* save_wordle_score, database.py:100-111.
attempt_score(attempts) ==
    CASE attempts = 1 -> 100 [] attempts = 2 -> 80 [] attempts = 3 -> 60
      [] attempts = 4 -> 40 [] attempts = 5 -> 20 [] OTHER -> 0

\* `v or 0` for v None or a number.
OrZero(v) == IF v = None THEN 0 ELSE v.value

\* save_wordle_score, database.py:113: the total_score of the inserted row.
wordle_total_score(attempts, skill, luck) ==
    OrZero(skill) + attempt_score(attempts) - OrZero(luck)

save_score_function_lost(game_key, user_id, number) == scores

\* save_wordle_score / save_connections_score: one INSERT per call.
save_score_function(game_key, user_id, number) ==
    scores (+) SetToBag({[game |-> GAME_CONFIGS[game_key].name,
                          user_id |-> user_id,
                          number |-> number]})

(* --------------------------- main_bot.py ------------------------------- *)
ShouldUpdateBelow(current_game_number, latest_game_number) ==
    current_game_number <= latest_game_number

ShouldUpdateAlways(current_game_number, latest_game_number) == TRUE

ShouldUpdateNotEqual(current_game_number, latest_game_number) ==
    current_game_number # latest_game_number

ShouldUpdateStrict(current_game_number, latest_game_number) ==
    current_game_number > latest_game_number

\* main_bot.py:129
ShouldUpdate(current_game_number, latest_game_number) ==
    current_game_number >= latest_game_number

AfterSaveSwallowed(ok) == "track"

\* main_bot.py:87-114: no try/except around the save, a failed INSERT
\* leaves the handler through the exception.
AfterSave(ok) == IF ok THEN "track" ELSE "save_error"

\* main_bot.py:84: f"Couldn't process your {game_config['name']} result."
failure_reply(game_name) ==
    CASE game_name = "Wordle" -> "Couldn't process your Wordle result."
      [] game_name = "Connections" -> "Couldn't process your Connections result."
      [] game_name = "Framed" -> "Couldn't process your Framed result."
      [] game_name = "Gisnep" -> "Couldn't process your Gisnep result."
      [] game_name = "Bandle" -> "Couldn't process your Bandle result."

\* create_acknowledgement (main_bot.py:117): the confirmation, without the
\* role-grant notice that line 147 appends.
create_acknowledgement == "ack"

(* -------------------------- role_manager.py ---------------------------- *)
\* handle_game_role_assignment, lines 31, 38, 42: the branch it takes.
RoleBranch(current_game_number, latest_game_number) ==
    IF current_game_number > latest_game_number THEN "reset"
    ELSE IF current_game_number = latest_game_number THEN "assign"
    ELSE "none"

(* ----------------------------- state ----------------------------------- *)
\* No parser or matcher call has returned yet.
Pending == [pending |-> TRUE]

Ids == 1..Len(handlers)

Terminal(h) ==
    h.killed \/ h.pc \in {"done", "save_error", "update_error", "name_error"}

\* game_info[game_number_key] of a handler (main_bot.py:126).
CurrentGameNumber(h) ==
    parse_function(h.game_key, h.content)[game_number_key(h.game_key)]

\* A sqlite call succeeds, or raises sqlite3.Error (at most MaxFailures
\* times in one behaviour).
Outcomes == IF failures < MaxFailures THEN BOOLEAN ELSE {TRUE}

\* The guild before the bot's first start: bob holds wordle-player, nobody
\* holds another player role.  (SpecRoles starts with nobody holding a role.)
InitialHolders ==
    { [r \in RoleNames |-> IF r = "wordle-player" THEN {"bob"} ELSE {}] }

Init ==
    /\ up = FALSE
    /\ running = 0
    /\ handlers = <<>>
    /\ latest_game_numbers = <<>>
    /\ scores = EmptyBag
    /\ holders \in InitialHolders
    /\ channel = <<>>
    /\ introductions = {}
    /\ crashes = 0
    /\ failures = 0
    /\ message = <<>>
    /\ commands = 0
    /\ returned = Pending

\* on_ready, main_bot.py:27-31.
OnReady ==
    /\ ~up
    /\ up' = TRUE
    /\ latest_game_numbers' = initialize_db(latest_game_numbers)
    /\ UNCHANGED <<running, handlers, scores, holders, channel, introductions,
                   crashes, failures, message, commands, returned>>

\* on_message (44-61) for a message that game_key's matcher accepts, and
\* handle_game_message up to line 114: parse, then save the score.  Nothing
\* is awaited in between, so no other handler runs between the two.
StartHandler(limit, user_id, game_key, content) ==
    /\ up
    /\ running = 0
    /\ Len(handlers) < limit
    /\ \E ok \in Outcomes :
         LET id == Len(handlers) + 1
             game_info == parse_function(game_key, content)
             number == IF game_key = "connections"
                       THEN game_info.puzzle_number
                       ELSE game_info.game_number
             saved == content.parses /\ ok
             h  == [user_id |-> user_id, game_key |-> game_key,
                    content |-> content, latest_game_number |-> -1,
                    response |-> "", killed |-> FALSE,
                    pc |-> IF content.parses THEN AfterSave(ok) ELSE "send_failure"]
         IN /\ content.parses \/ ok
            /\ handlers' = Append(handlers, h)
            /\ channel' = Append(channel, <<>>)
            /\ scores' = IF saved THEN save_score_function(game_key, user_id, number)
                         ELSE scores
            /\ running' = IF h.pc = "track" THEN id ELSE 0
            /\ failures' = IF ok THEN failures ELSE failures + 1
    /\ UNCHANGED <<up, latest_game_numbers, holders, introductions, crashes,
                   commands, returned>>

OnMessage(user_id, game_key, content) ==
    /\ StartHandler(MaxMessages, user_id, game_key, content)
    /\ UNCHANGED message

\* handle_game_message, lines 116-134 (and up to the await of line 151 for
\* an old game number): read the latest game number, compare, update.
\* After the update the debugging print of lines 131-134 formats
\* `game_number`, which is neither a local of the handler nor a global of
\* main_bot.py: it raises NameError, and lines 136-151 (role assignment,
\* notice, introduction, reply) are not reached.
Track(id) ==
    /\ running = id
    /\ handlers[id].pc = "track"
    /\ \E ok \in Outcomes :
         LET h == handlers[id]
             game_config == GAME_CONFIGS[h.game_key]
             latest_game_number == get_latest_game_number_from_db(game_config.name)
             current_game_number == CurrentGameNumber(h)
             update == ShouldUpdate(current_game_number, latest_game_number)
         IN /\ update \/ ok
            /\ latest_game_numbers' =
                  IF update /\ ok
                  THEN update_latest_game_number_in_db(game_config.name, current_game_number)
                  ELSE latest_game_numbers
            /\ handlers' = [handlers EXCEPT
                              ![id].response = create_acknowledgement,
                              ![id].latest_game_number = latest_game_number,
                              ![id].pc = IF ~update THEN "send"
                                         ELSE IF ok THEN "name_error"
                                         ELSE "update_error"]
            /\ failures' = IF ok THEN failures ELSE failures + 1
    /\ running' = 0
    /\ UNCHANGED <<up, scores, holders, channel, introductions, crashes,
                   message, commands, returned>>

\* The awaited message.channel.send of line 84 or line 151 completes.
SendResponse(id) ==
    /\ up
    /\ running = 0
    /\ ~handlers[id].killed
    /\ handlers[id].pc \in {"send", "send_failure"}
    /\ channel' = [channel EXCEPT ![id] =
                      Append(@, IF handlers[id].pc = "send_failure"
                                THEN failure_reply(
                                         GAME_CONFIGS[handlers[id].game_key].name)
                                ELSE handlers[id].response)]
    /\ handlers' = [handlers EXCEPT ![id].pc = "done"]
    /\ UNCHANGED <<up, running, latest_game_numbers, scores, holders,
                   introductions, crashes, failures, message, commands,
                   returned>>

\* The process stops; every handler in flight is lost.
Crash ==
    /\ up
    /\ crashes < MaxCrashes
    /\ crashes' = crashes + 1
    /\ up' = FALSE
    /\ running' = 0
    /\ handlers' = [i \in Ids |->
                      IF Terminal(handlers[i]) THEN handlers[i]
                      ELSE [handlers[i] EXCEPT !.killed = TRUE]]
    /\ UNCHANGED <<latest_game_numbers, scores, holders, channel,
                   introductions, failures, message, commands, returned>>

Next ==
    \/ OnReady
    \/ \E u \in Users, k \in SubmittedGames, c \in Contents : OnMessage(u, k, c)
    \/ \E id \in Ids : Track(id)
    \/ \E id \in Ids : SendResponse(id)
    \/ Crash

Spec == Init /\ [][Next]_vars

\* The sequential scenario: up to SeqMessages messages, the process does not
\* stop and no sqlite call fails.
InitSeq ==
    /\ up = FALSE
    /\ running = 0
    /\ handlers = <<>>
    /\ latest_game_numbers = <<>>
    /\ scores = EmptyBag
    /\ holders \in InitialHolders
    /\ channel = <<>>
    /\ introductions = {}
    /\ crashes = 0
    /\ failures = MaxFailures
    /\ message = <<>>
    /\ commands = 0
    /\ returned = Pending

OnMessageSeq(user_id, game_key, content) ==
    /\ StartHandler(SeqMessages, user_id, game_key, content)
    /\ UNCHANGED message

NextSeq ==
    \/ OnReady
    \/ \E u \in Users, k \in SubmittedGames, c \in Contents :
           OnMessageSeq(u, k, c)
    \/ \E id \in Ids : Track(id)
    \/ \E id \in Ids : SendResponse(id)

SpecSeq == InitSeq /\ [][NextSeq]_vars

(* ---------------- parser and matcher calls (SpecParse) ----------------- *)
\* main_bot.py:88-114 with the save function of database.py:98-200: the
\* columns of the row that is inserted for game_info.
ScoreRow(game_key, game_info) ==
    CASE game_key = "wordle" ->
           [game_number |-> game_info.game_number,
            attempts |-> game_info.attempts,
            skill |-> game_info.skill,
            luck |-> game_info.luck,
            hard_mode |-> game_info.hard_mode,
            total_score |-> wordle_total_score(game_info.attempts,
                                               game_info.skill, game_info.luck)]
      [] game_key = "connections" ->
           [puzzle_number |-> game_info.puzzle_number,
            total_score |-> game_info.total_score,
            guesses |-> game_info.num_guesses,
            solved_purple_first |-> game_info.solved_purple_first,
            solved_blue_first |-> game_info.solved_blue_first]
      [] game_key = "framed" ->
           [game_number |-> game_info.game_number,
            attempts |-> game_info.attempts,
            total_score |-> game_info.total_score]
      [] game_key = "gisnep" ->
           [game_number |-> game_info.game_number,
            completion_time |-> game_info.completion_time]
      [] game_key = "bandle" ->
           [game_number |-> game_info.game_number,
            attempts |-> game_info.attempts,
            total_score |-> game_info.total_score,
            bonus_completed |-> game_info.bonus_completed,
            bonus_total |-> game_info.bonus_total]

DispatchAlways(content) == [processed |-> TRUE, game_key |-> GameOrder[1]]

DispatchLast(content) ==
    LET hits == {i \in DOMAIN GameOrder : is_game_message(GameOrder[i], content)}
    IN IF hits = {} THEN [processed |-> FALSE]
       ELSE [processed |-> TRUE, game_key |-> GameOrder[Greatest(hits)]]

\* on_message, main_bot.py:51-61: the first entry of the registry whose
\* matcher accepts the text, if there is one.
Dispatch(content) ==
    LET hits == {i \in DOMAIN GameOrder : is_game_message(GameOrder[i], content)}
    IN IF hits = {} THEN [processed |-> FALSE]
       ELSE [processed |-> TRUE, game_key |-> GameOrder[Least(hits)]]

InitParse ==
    /\ up = FALSE
    /\ running = 0
    /\ handlers = <<>>
    /\ latest_game_numbers = <<>>
    /\ scores = EmptyBag
    /\ holders = [r \in RoleNames |-> {}]
    /\ channel = <<>>
    /\ introductions = {}
    /\ crashes = 0
    /\ failures = 0
    /\ commands = 0
    /\ message \in ParseTexts
    /\ returned = Pending

\* config["parse_function"](message.content) and, for a result, the row
\* that the game's save function inserts.
ParseCall(game_key) ==
    /\ returned = Pending
    /\ LET game_info == parse_message(game_key, message)
       IN returned' =
            [call |-> "parse", game_key |-> game_key, game_info |-> game_info,
             row |-> IF game_info = None \/ game_info = Raise("IndexError")
                     THEN None ELSE ScoreRow(game_key, game_info)]
    /\ UNCHANGED <<up, running, handlers, latest_game_numbers, scores, holders,
                   channel, introductions, crashes, failures, message, commands>>

\* The five matchers and the loop of on_message on one text.
MatchCall ==
    /\ returned = Pending
    /\ returned' = [call |-> "match",
                    accepted |-> {k \in GameKeys : is_game_message(k, message)},
                    dispatch |-> Dispatch(message)]
    /\ UNCHANGED <<up, running, handlers, latest_game_numbers, scores, holders,
                   channel, introductions, crashes, failures, message, commands>>

NextParse ==
    \/ \E k \in GameKeys : ParseCall(k)
    \/ MatchCall

SpecParse == InitParse /\ [][NextParse]_vars

(* ------------------ the scores channel (SpecDispatch) ------------------ *)
ContentOfAnyResult(game_key, content) == [index |-> 0, parses |-> TRUE]

\* What handle_game_message sees of a text that game_key's matcher accepts
\* (main_bot.py:81-83).
ContentOf(game_key, content) ==
    LET game_info == parse_message(game_key, content)
    IN IF game_info = None THEN [index |-> 0, parses |-> FALSE]
       ELSE [index |-> game_info[game_number_key(game_key)], parses |-> TRUE]

InitDispatch ==
    /\ up = FALSE
    /\ running = 0
    /\ handlers = <<>>
    /\ latest_game_numbers = <<>>
    /\ scores = EmptyBag
    /\ holders \in InitialHolders
    /\ channel = <<>>
    /\ introductions = {}
    /\ crashes = 0
    /\ failures = MaxFailures
    /\ message = <<>>
    /\ commands = 0
    /\ returned = Pending

\* on_message, main_bot.py:44-64, for a text posted in #scores by a user:
\* the first matching game's handler starts, or the message goes to
\* bot.process_commands.
OnMessageText(user_id, content) ==
    /\ up
    /\ running = 0
    /\ Len(handlers) + commands < DispatchMessages
    /\ message' = content
    /\ LET d == Dispatch(content)
       IN IF d.processed
          THEN StartHandler(DispatchMessages, user_id, d.game_key,
                            ContentOf(d.game_key, content))
          ELSE /\ commands' = commands + 1
               /\ UNCHANGED <<up, running, handlers, latest_game_numbers,
                              scores, holders, channel, introductions,
                              crashes, failures, returned>>

NextDispatch ==
    \/ OnReady
    \/ \E u \in Users, c \in ChannelTexts : OnMessageText(u, c)
    \/ \E id \in Ids : Track(id)
    \/ \E id \in Ids : SendResponse(id)

SpecDispatch == InitDispatch /\ [][NextDispatch]_vars

TypeOK ==
    /\ up \in BOOLEAN
    /\ running \in {0} \cup Ids
    /\ crashes \in 0..MaxCrashes
    /\ failures \in 0..MaxFailures
    /\ Len(channel) = Len(handlers)
    /\ \A id \in Ids :
         /\ handlers[id].pc \in {"track", "send", "send_failure", "done",
                                 "save_error", "update_error", "name_error",
                                 "revoke", "assign", "introduce"}
         /\ handlers[id].latest_game_number \in -1..MaxIndex
    /\ \A r \in DOMAIN holders : holders[r] \subseteq Users
    /\ commands \in 0..DispatchMessages

(* ------------------------------ claims --------------------------------- *)
GameName(h) == GAME_CONFIGS[h.game_key].name

RoleName(h) == GAME_CONFIGS[h.game_key].player_role_name

Row(h) == [game |-> GameName(h), user_id |-> h.user_id,
           number |-> CurrentGameNumber(h)]

\* The handler has read the latest game number and compared.
Tracked(h) == h.latest_game_number >= 0

\* The handler has left handle_game_message after the tracker ran and its
\* writes succeeded: by the reply of line 151 or by the NameError of line 133.
Finished(h) == Tracked(h) /\ h.pc \in {"done", "name_error"}

\* The outcome of section 4.3 for a handler that has compared.
Outcome(h) ==
    IF CurrentGameNumber(h) > h.latest_game_number THEN "NEW_RECORD"
    ELSE IF CurrentGameNumber(h) = h.latest_game_number THEN "CURRENT"
    ELSE "STALE"

LatestKnownIndex(game_name) == get_latest_game_number_from_db(game_name)

\* C1: for every game the stored latest game number never decreases from
\* one state to the next, whatever the order of the submitted indices.
C1_Monotonic ==
    [][\A g \in GameNames :
         LatestKnownIndex(g)' >= LatestKnownIndex(g)]_vars

\* An index below the latest one was submitted after the latest one and has
\* gone through the tracker.
C1_Witness ==
    \E a, b \in Ids :
        /\ a < b
        /\ GameName(handlers[a]) = GameName(handlers[b])
        /\ Finished(handlers[a])
        /\ Tracked(handlers[b])
        /\ CurrentGameNumber(handlers[b]) < CurrentGameNumber(handlers[a])
        /\ LatestKnownIndex(GameName(handlers[a])) = CurrentGameNumber(handlers[a])

\* C2 (as claimed): when the last ingestion saw an index above the latest
\* one and has finished, the latest index is that index, every previous
\* holder has lost the game's role and the submitter is its only holder.
C2_Advance ==
    \A id \in Ids :
        LET h == handlers[id] IN
        (id = Len(handlers) /\ Finished(h) /\ Outcome(h) = "NEW_RECORD")
            => /\ LatestKnownIndex(GameName(h)) = CurrentGameNumber(h)
               /\ holders[RoleName(h)] = {h.user_id}

\* C3 (as claimed): when the last ingestion saw the latest index again and
\* has finished, the submitter holds the game's role and the latest index
\* is unchanged.
C3_Current ==
    \A id \in Ids :
        LET h == handlers[id] IN
        (id = Len(handlers) /\ Finished(h) /\ Outcome(h) = "CURRENT")
            => /\ h.user_id \in holders[RoleName(h)]
               /\ LatestKnownIndex(GameName(h)) = CurrentGameNumber(h)

\* C4: every step of a handler whose index is below the latest one it read
\* leaves the latest numbers and the role holders as they were, its row is
\* persisted, and the only reply it sends is the plain confirmation (no
\* role-grant notice, no introduction).
C4_Stale ==
    [][\A id \in Ids :
         LET h == handlers'[id] IN
         (handlers'[id] # handlers[id] /\ ~h.killed /\ Tracked(h)
            /\ Outcome(h) = "STALE")
            => /\ BagIn(Row(h), scores')
               /\ latest_game_numbers' = latest_game_numbers
               /\ holders' = holders
               /\ introductions' = introductions
               /\ h.pc \in {"send", "done"}
               /\ h.response = create_acknowledgement
               /\ channel'[id] = IF h.pc = "done"
                                 THEN <<create_acknowledgement>> ELSE <<>>]_vars

\* A handler with an old index has replied.
C4_Witness ==
    \E id \in Ids :
        /\ handlers[id].pc = "done"
        /\ Tracked(handlers[id])
        /\ Outcome(handlers[id]) = "STALE"
        /\ channel[id] = <<create_acknowledgement>>

\* C5: the step in which a handler compares uses the stored latest number
\* of its game, read in that step; it writes the index exactly when
\* role_manager would reset or assign for the same pair of numbers
\* (NEW_RECORD or CURRENT), and goes on to the reply without a write exactly
\* when role_manager would do nothing (STALE).
C5_OneClassification ==
    [][\A id \in Ids :
         LET h == handlers'[id]
             g == GameName(handlers[id])
             branch == RoleBranch(CurrentGameNumber(h), h.latest_game_number)
         IN (~Tracked(handlers[id]) /\ Tracked(h))
            => /\ h.latest_game_number = LatestKnownIndex(g)
               /\ branch = "none" <=> Outcome(h) = "STALE"
               /\ branch = "none" <=> h.pc = "send"
               /\ branch # "none" <=> h.pc \in {"name_error", "update_error"}
               /\ LatestKnownIndex(g)' =
                     IF h.pc = "name_error" THEN CurrentGameNumber(h)
                     ELSE LatestKnownIndex(g)]_vars

\* One ingestion was NEW_RECORD and a later one STALE.
C5_Witness ==
    \E a, b \in Ids :
        /\ Finished(handlers[a]) /\ Outcome(handlers[a]) = "NEW_RECORD"
        /\ Finished(handlers[b]) /\ Outcome(handlers[b]) = "STALE"

\* C6 (as claimed): three consecutive finished submissions for one game,
\* k+1 read against k, then k+1 by another user, then k-1, are NEW_RECORD,
\* CURRENT and STALE; afterwards the latest index is k+1 and exactly the
\* first two submitters hold the role.
C6_EndToEnd ==
    \A a \in Ids :
        LET b == a + 1
            c == a + 2
        IN (/\ c = Len(handlers)
            /\ \A i \in {a, b, c} :
                  /\ Finished(handlers[i])
                  /\ handlers[i].game_key = handlers[a].game_key
            /\ CurrentGameNumber(handlers[a]) = handlers[a].latest_game_number + 1
            /\ CurrentGameNumber(handlers[b]) = CurrentGameNumber(handlers[a])
            /\ handlers[b].user_id # handlers[a].user_id
            /\ CurrentGameNumber(handlers[c]) = CurrentGameNumber(handlers[a]) - 2)
           => /\ Outcome(handlers[a]) = "NEW_RECORD"
              /\ Outcome(handlers[b]) = "CURRENT"
              /\ Outcome(handlers[c]) = "STALE"
              /\ LatestKnownIndex(GameName(handlers[a])) = CurrentGameNumber(handlers[a])
              /\ holders[RoleName(handlers[a])] =
                    {handlers[a].user_id, handlers[b].user_id}

\* C7: when the save of a new message raises, the handler ends there with
\* the exception: no row is added, the latest numbers and the role holders
\* are those of the state in which the message arrived, and the handler
\* never reads or writes the latest number afterwards.
C7_SaveFailure ==
    [][/\ (Len(handlers') > Len(handlers) /\ failures' > failures)
          => /\ handlers'[Len(handlers')].pc = "save_error"
             /\ running' = 0
             /\ scores' = scores
             /\ latest_game_numbers' = latest_game_numbers
             /\ holders' = holders
       /\ \A id \in Ids :
            handlers[id].pc = "save_error"
               => /\ handlers'[id] = handlers[id]
                  /\ ~Tracked(handlers[id])]_vars

\* A save has failed.
C7_Witness ==
    \E id \in Ids : handlers[id].pc = "save_error"

\* C8: a handler that has read the latest number has its row persisted, and
\* a stored latest number n > 0 of a game is the index of a persisted row of
\* that game.
C8_PersistedFirst ==
    /\ \A id \in Ids :
         (Tracked(handlers[id]) \/ handlers[id].pc = "track")
            => BagIn(Row(handlers[id]), scores)
    /\ \A g \in GameNames :
         LatestKnownIndex(g) > 0
            => \E r \in BagToSet(scores) :
                  r.game = g /\ r.number = LatestKnownIndex(g)

\* A latest number above 0 is stored.
C8_Witness ==
    \E g \in GameNames : LatestKnownIndex(g) > 0

\* The process stopped after handler a had saved its row and before it
\* read the latest number; b is a later submission of the same index for
\* the same game that has read the latest number.
AfterLostUpdate(a, b) ==
    /\ a < b
    /\ handlers[a].killed
    /\ handlers[a].pc = "track"
    /\ handlers[b].game_key = handlers[a].game_key
    /\ CurrentGameNumber(handlers[b]) = CurrentGameNumber(handlers[a])
    /\ Tracked(handlers[b])

LastWritten(b) ==
    LET done == {c \in 1..(b - 1) :
                    /\ handlers[c].game_key = handlers[b].game_key
                    /\ handlers[c].pc = "name_error"}
    IN IF done = {} THEN 0
       ELSE CurrentGameNumber(handlers[CHOOSE c \in done : \A d \in done : d <= c])

Advanced(h) ==
    Tracked(h) /\ Outcome(h) = "NEW_RECORD" /\ h.pc # "update_error"

\* C10: no two ingestions of the same index of the same game both advance
\* the latest number (NEW_RECORD), and at most one live handler is between
\* its save and its read-compare-write.
C10_OneNewRecord ==
    /\ \A a, b \in Ids :
         (/\ a # b
          /\ handlers[a].game_key = handlers[b].game_key
          /\ CurrentGameNumber(handlers[a]) = CurrentGameNumber(handlers[b]))
            => ~(Advanced(handlers[a]) /\ Advanced(handlers[b]))
    /\ \A a, b \in Ids :
         (/\ handlers[a].pc = "track" /\ ~handlers[a].killed
          /\ handlers[b].pc = "track" /\ ~handlers[b].killed)
            => a = b /\ running = a

\* The same index of a game was ingested twice: first NEW_RECORD, then
\* CURRENT.
C10_Witness ==
    \E a, b \in Ids :
        /\ a < b
        /\ handlers[a].game_key = handlers[b].game_key
        /\ handlers[a].user_id # handlers[b].user_id
        /\ CurrentGameNumber(handlers[a]) = CurrentGameNumber(handlers[b])
        /\ Advanced(handlers[a])
        /\ Finished(handlers[b]) /\ Outcome(handlers[b]) = "CURRENT"

\* The text of the message that started the last handler did not parse.
FormatError(h, text) ==
    is_game_message(h.game_key, text) /\ parse_message(h.game_key, text) = None

\* C11: when the matcher of the first matching game accepts a text and its
\* parser returns None, the handler saves no row and changes neither the
\* latest numbers nor the role holders; its only later step sends the
\* "Couldn't process your <game> result." reply, and it never reads the
\* latest number.
C11_FormatError ==
    [][/\ (Len(handlers') > Len(handlers)
            /\ FormatError(handlers'[Len(handlers')], message'))
          => /\ handlers'[Len(handlers')].pc = "send_failure"
             /\ channel'[Len(handlers')] = <<>>
             /\ scores' = scores
             /\ latest_game_numbers' = latest_game_numbers
             /\ holders' = holders
       /\ \A id \in Ids :
            (handlers[id].pc = "send_failure" /\ handlers'[id] # handlers[id])
               => /\ handlers'[id].pc = "done"
                  /\ ~Tracked(handlers'[id])
                  /\ channel'[id] = <<failure_reply(GameName(handlers[id]))>>
                  /\ scores' = scores
                  /\ latest_game_numbers' = latest_game_numbers
                  /\ holders' = holders]_vars

\* A Gisnep post without its "No. n" was answered with the failure reply,
\* after an earlier post had stored a row and a latest number.
C11_Witness ==
    \E id \in Ids :
        /\ FormatError(handlers[id], message)
        /\ handlers[id].game_key = "gisnep"
        /\ handlers[id].pc = "done"
        /\ channel[id] = <<"Couldn't process your Gisnep result.">>
        /\ scores # EmptyBag

\* The step delivers a message to on_message.
Delivered == Len(handlers') + commands' > Len(handlers) + commands

NoMatch(text) == \A k \in GameKeys : ~is_game_message(k, text)

\* C12: a delivered message that no matcher accepts is handed to
\* bot.process_commands and starts no handler, adds no row, changes no
\* latest number, no role holder and sends no reply; a delivered message that
\* some matcher accepts starts exactly one handler and is not handed to
\* bot.process_commands.
C12_NoMatch ==
    [][Delivered =>
         IF NoMatch(message')
         THEN /\ commands' = commands + 1
              /\ handlers' = handlers
              /\ scores' = scores
              /\ latest_game_numbers' = latest_game_numbers
              /\ holders' = holders
              /\ channel' = channel
              /\ introductions' = introductions
         ELSE /\ commands' = commands
              /\ Len(handlers') = Len(handlers) + 1
              /\ is_game_message(handlers'[Len(handlers')].game_key, message')]_vars

\* An ordinary message was handed on after a game result had been stored.
C12_Witness ==
    /\ commands > 0
    /\ NoMatch(message)
    /\ message # <<>>
    /\ scores # EmptyBag
    /\ \E g \in GameNames : LatestKnownIndex(g) > 0

\* The order in which the games are to be tried.
ClaimedRank ==
    [wordle |-> 1, connections |-> 2, framed |-> 3, gisnep |-> 4, bandle |-> 5]

\* C13: for every text the loop of on_message runs no pipeline when no
\* matcher accepts it, and otherwise exactly the pipeline of the accepting
\* game that comes first in the order wordle, connections, framed, gisnep,
\* bandle.
C13_FirstMatch ==
    returned # Pending /\ returned.call = "match"
        => LET accepted == {k \in GameKeys : is_game_message(k, message)}
               d == returned.dispatch
           IN /\ returned.accepted = accepted
              /\ d.processed <=> accepted # {}
              /\ d.processed =>
                    /\ d.game_key \in accepted
                    /\ \A k \in accepted :
                          ClaimedRank[d.game_key] <= ClaimedRank[k]

\* A text that the matchers of Framed and Bandle accept went to Framed.
C13_Witness ==
    /\ returned # Pending /\ returned.call = "match"
    /\ returned.accepted = {"framed", "bandle"}
    /\ returned.dispatch = [processed |-> TRUE, game_key |-> "framed"]

\* C14 (as claimed): for every text at most one of the five matchers
\* returns true.
C14_AtMostOneMatcher ==
    returned # Pending /\ returned.call = "match"
        => Cardinality(returned.accepted) <= 1

\* The call parsed the text as a result of game_key.
Parsed(game_key) ==
    /\ returned # Pending
    /\ returned.call = "parse"
    /\ returned.game_key = game_key
    /\ returned.game_info # None

\* The tier table of the Wordle total.
ClaimedWordleTier(attempts) ==
    CASE attempts = 1 -> 100 [] attempts = 2 -> 80 [] attempts = 3 -> 60
      [] attempts = 4 -> 40 [] attempts = 5 -> 20 [] OTHER -> 0

\* C15: for a Wordle post "Wordle #n a/6" with or without a
\* "Skill s/99 Luck l/99" line, the inserted total is tier(attempts) + s - l
\* (s = l = 0 without the line), with attempts = a for a digit and, for
\* a = X, attempts = 7, solved = false and tier 0.
C15_WordleScore ==
    (message \in WordleTexts /\ returned # Pending
       /\ returned.call = "parse" /\ returned.game_key = "wordle")
        => LET tok == message[1][3]
               with == Len(message) = 2
               sk == IF with THEN message[2][2].a ELSE 0
               lu == IF with THEN message[2][4].a ELSE 0
               gi == returned.game_info
           IN /\ gi # None
              /\ gi.attempts = IF tok.x THEN 7 ELSE tok.a
              /\ gi.solved = ~tok.x
              /\ gi.skill = IF with THEN Some(sk) ELSE None
              /\ gi.luck = IF with THEN Some(lu) ELSE None
              /\ returned.row.total_score =
                    ClaimedWordleTier(gi.attempts) + sk - lu
              /\ tok.x => returned.row.total_score = sk - lu

\* "Wordle #1 3/6" with "Skill 40/99 Luck 10/99" was stored with total 90.
C15_Witness ==
    /\ Parsed("wordle")
    /\ message = <<WordleLine(FALSE, 3, FALSE), SkillLuckLine(40, 10)>>
    /\ returned.row.total_score = 90

\* The guess sequence that the lines below the header of a Connections
\* post show: the category of a line of four equal squares, a miss ("X")
\* for a line of four different ones.
ShownGuesses(text) ==
    [i \in 1..(Len(text) - 2) |->
        LET sq == text[i + 2][1].s
        IN IF sq[1] = sq[2] THEN sq[1] ELSE "X"]

Categories == {"purple", "blue", "green", "yellow"}

\* The categories found and the misses of a guess sequence.
Found(g) == {g[i] : i \in DOMAIN g} \cap Categories

Misses(g) == Cardinality({i \in DOMAIN g : g[i] = "X"})

\* total = bonusOrder + categorySum + completionAdjustment as claimed.
ClaimedConnectionsTotal(g) ==
    LET correct == {i \in DOMAIN g : g[i] \in Categories}
        first == IF correct = {} THEN "" ELSE g[Least(correct)]
        bonusOrder == IF first = "purple" THEN 2
                      ELSE IF first = "blue" THEN 1 ELSE 0
        Value(c) == CASE c = "purple" -> 4 [] c = "blue" -> 3
                      [] c = "green" -> 2 [] c = "yellow" -> 1 [] OTHER -> 0
        Sum[k \in 0..Len(g)] == IF k = 0 THEN 0 ELSE Sum[k - 1] + Value(g[k])
        completionAdjustment ==
            IF Found(g) = Categories /\ Misses(g) = 0 THEN 5 ELSE 0 - Misses(g)
    IN bonusOrder + Sum[Len(g)] + completionAdjustment

\* C16 (as claimed): for every guess sequence of a Connections post the
\* total is bonusOrder + categorySum + completionAdjustment, the completion
\* bonus of 5 being given exactly when all four categories were found
\* without a miss.
C16_ConnectionsScore ==
    (message \in ConnectionsTexts /\ Parsed("connections"))
        => /\ returned.game_info.guesses = ShownGuesses(message)
           /\ returned.row.total_score =
                 ClaimedConnectionsTotal(ShownGuesses(message))

\* C17 (as claimed): finished is true exactly when all four categories
\* were found, whatever the number of misses.
C17_Finished ==
    (message \in ConnectionsTexts /\ Parsed("connections"))
        => (returned.game_info.finished_game
              <=> Found(ShownGuesses(message)) = Categories)

\* The positions of the solved marker in a reveal sequence.
SolvedAt(r) == {i \in DOMAIN r : r[i] = "green"}

\* C18: for a Framed post with reveal sequence r, attempts is the position
\* of the first green square and solved is true, or, without a green square,
\* attempts is the length of r and solved is false; the score is 100, 80,
\* 60, 40, 20, 10 for attempts 1..6 when solved, and 0 otherwise.
C18_FramedScore ==
    (message \in FramedTexts /\ returned # Pending
       /\ returned.call = "parse" /\ returned.game_key = "framed")
        => LET r == message[2][1].s
               gi == returned.game_info
           IN /\ gi # None
              /\ gi.solved <=> SolvedAt(r) # {}
              /\ gi.solved =>
                    /\ r[gi.attempts] = "green"
                    /\ \A i \in 1..(gi.attempts - 1) : r[i] # "green"
              /\ ~gi.solved => gi.attempts = Len(r)
              /\ gi.total_score =
                    IF ~gi.solved THEN 0
                    ELSE CASE gi.attempts = 1 -> 100 [] gi.attempts = 2 -> 80
                           [] gi.attempts = 3 -> 60 [] gi.attempts = 4 -> 40
                           [] gi.attempts = 5 -> 20 [] gi.attempts = 6 -> 10
                           [] OTHER -> 0
              /\ returned.row.attempts = gi.attempts
              /\ returned.row.total_score = gi.total_score

\* A Framed post solved at the sixth reveal, with a square after it, was
\* stored with attempts 6 and score 10.
C18_Witness ==
    /\ Parsed("framed")
    /\ message \in FramedTexts
    /\ message[2][1].s = <<"red", "red", "red", "red", "red", "green", "black">>
    /\ returned.row.attempts = 6
    /\ returned.row.total_score = 10

\* C19: for a Bandle post "Bandle #n a/m" a digit a gives attempts = a,
\* solved and score max(6 - a, 0); a = X gives attempts = m + 1 (not 0),
\* not solved and score 0; the result carries completed/total of a
\* "Bonus Rounds: c/t" line, 0/0 without one, and the score is the same
\* with and without that line.
C19_BandleScore ==
    (message \in BandleTexts /\ returned # Pending
       /\ returned.call = "parse" /\ returned.game_key = "bandle")
        => LET tok == message[1][3]
               bonus == Len(message) = 2
               gi == returned.game_info
               row == returned.row
           IN /\ gi # None
              /\ ~tok.x => /\ gi.attempts = tok.a
                           /\ gi.solved
                           /\ gi.total_score = IF tok.a < 6 THEN 6 - tok.a ELSE 0
              /\ tok.x => /\ gi.attempts = tok.m + 1
                          /\ gi.attempts # 0
                          /\ ~gi.solved
                          /\ gi.total_score = 0
              /\ gi.bonus_completed = IF bonus THEN message[2][3].a ELSE 0
              /\ gi.bonus_total = IF bonus THEN message[2][3].m ELSE 0
              /\ gi.total_score = parse_bandle_score(<<message[1]>>).total_score
              /\ row.attempts = gi.attempts
              /\ row.total_score = gi.total_score
              /\ row.bonus_completed = gi.bonus_completed
              /\ row.bonus_total = gi.bonus_total

\* "Bandle #1 X/6" with "Bonus Rounds: 2/3" was stored with attempts 7,
\* score 0 and bonus 2 of 3.
C19_Witness ==
    /\ Parsed("bandle")
    /\ message = << <<Word("Bandle"), Num(TRUE, 1), Ratio(TRUE, 0, 6, FALSE)>>,
                    <<Word("Bonus"), Word("Rounds:"), Ratio(FALSE, 2, 3, FALSE)>> >>
    /\ returned.row = [game_number |-> 1, attempts |-> 7, total_score |-> 0,
                       bonus_completed |-> 2, bonus_total |-> 3]

\* C20 (as claimed): a Gisnep post "#Gisnep No. n in <token>" is accepted
\* by the matcher and the parser for a token M:SS or MM:SS and for a token
\* of bare seconds, and the stored row holds no score but the completion
\* time: 60 * M + S, or the bare number of seconds.
C20_GisnepTime ==
    (message \in GisnepTexts /\ returned # Pending
       /\ returned.call = "parse" /\ returned.game_key = "gisnep")
        => LET tok == message[1][5]
           IN /\ is_gisnep_message(message)
              /\ returned.game_info # None
              /\ DOMAIN returned.row = {"game_number", "completion_time"}
              /\ returned.row.completion_time =
                    IF tok.t = "time" THEN 60 * tok.m + tok.s ELSE tok.n
(* ----------------------- claims C21 .. C30 ----------------------------- *)
\* The handler has inserted its row (main_bot.py:88-114 returned).
Saved(h) == h.content.parses /\ h.pc # "save_error"

\* The number of handlers that have inserted the row `row`.
Saves(row) == Cardinality({id \in Ids : Saved(handlers[id]) /\ Row(handlers[id]) = row})

\* C21: a second Wordle submission by the same user for the same puzzle
\* index overwrites the earlier record, so the Wordle table holds at most
\* one row for a (user, index) pair; every submission of another game
\* inserts one more row.
C21_Resubmission ==
    \A row \in BagToSet(scores) :
        IF row.game = "Wordle"
        THEN CopiesIn(row, scores) <= 1
        ELSE CopiesIn(row, scores) = Saves(row)

RECURSIVE StripTrailing(_)
\* The text without the blank and commentary lines at its end.
StripTrailing(text) ==
    IF text # <<>> /\ text[Len(text)] \in TrailingLines
    THEN StripTrailing(SubSeq(text, 1, Len(text) - 1))
    ELSE text

\* C22: blank lines and commentary below the grid of a Wordle or
\* Connections post add nothing: the post with the trailing lines has the
\* same grid, guess count, miss count and total score as the post without
\* them.
C22_TrailingLines ==
    (/\ returned # Pending
     /\ returned.call = "parse"
     /\ returned.game_key \in {"wordle", "connections"}
     /\ message \in CommentedTexts
     /\ returned.game_info # None)
    => LET plain == parse_message(returned.game_key, StripTrailing(message))
       IN IF returned.game_key = "wordle"
          THEN /\ returned.game_info.grid = plain.grid
               /\ returned.game_info.attempts = plain.attempts
               /\ returned.row = ScoreRow("wordle", plain)
          ELSE /\ returned.game_info.guesses = plain.guesses
               /\ returned.game_info.num_guesses = plain.num_guesses
               /\ returned.game_info.mistake_count = plain.mistake_count
               /\ returned.game_info.total_score = plain.total_score

\* The Wordle half of C22.
C22_WordleOnly ==
    (/\ returned # Pending
     /\ returned.call = "parse"
     /\ returned.game_key = "wordle"
     /\ message \in CommentedTexts
     /\ returned.game_info # None)
    => LET plain == parse_message(returned.game_key, StripTrailing(message))
       IN /\ returned.game_info.grid = plain.grid
          /\ returned.row = ScoreRow("wordle", plain)

(* --------------- the scores channel, run to the end (SpecLive) --------- *)
\* The channel scenario with sqlite errors allowed.
InitLive ==
    /\ up = FALSE
    /\ running = 0
    /\ handlers = <<>>
    /\ latest_game_numbers = <<>>
    /\ scores = EmptyBag
    /\ holders \in InitialHolders
    /\ channel = <<>>
    /\ introductions = {}
    /\ crashes = 0
    /\ failures = 0
    /\ message = <<>>
    /\ commands = 0
    /\ returned = Pending

\* The event loop is fair to the handlers it has started: the handler that
\* holds the loop runs on to its next await, and an awaited send completes
\* (the process does not stop in this scenario).
SpecLive ==
    /\ InitLive
    /\ [][NextDispatch]_vars
    /\ WF_vars(\E id \in Ids : Track(id))
    /\ WF_vars(\E id \in Ids : SendResponse(id))

\* The one reply the claim expects for handler id: the failure
\* acknowledgement naming the game when the parse or a write failed, the
\* confirmation otherwise.
ExpectedReply(id) ==
    LET h == handlers[id]
    IN IF ~h.content.parses \/ h.pc \in {"save_error", "update_error"}
       THEN failure_reply(GameName(h))
       ELSE create_acknowledgement

\* C23: every message that a matcher accepts eventually has exactly one
\* reply in the channel: the failure acknowledgement naming the game after
\* a parse or persistence failure, the confirmation after a success.
C23_OneReply ==
    \A id \in 1..DispatchMessages :
        (Len(handlers) >= id)
            ~> (/\ Len(handlers) >= id
                /\ channel[id] = <<ExpectedReply(id)>>)

\* The part of C23 that the handler keeps: a message never has more than
\* one reply, and a message whose text does not parse is answered with the
\* failure acknowledgement of its game.
C23_ParseFailureReplied ==
    /\ [](\A id \in Ids : Len(channel[id]) <= 1)
    /\ \A id \in 1..DispatchMessages :
        (Len(handlers) >= id /\ ~handlers[id].content.parses)
            ~> (/\ Len(handlers) >= id
                /\ channel[id] = <<failure_reply(GameName(handlers[id]))>>)

\* C24: at the first start the latest game number of each of the five
\* games is initialised to 0; the stored values survive a stop of the
\* process, and running initialize_db again at the next start leaves every
\* stored value as it was; a game without a stored entry reads as 0.
C24_InitialisedDurable ==
    [][LET five == {"Wordle", "Connections", "Framed", "Gisnep", "Bandle"}
       IN /\ (~up /\ up' /\ crashes = 0) =>
                 /\ DOMAIN latest_game_numbers' = five
                 /\ \A g \in five : latest_game_numbers'[g] = 0
          /\ (~up /\ up' /\ crashes > 0) =>
                 /\ DOMAIN latest_game_numbers' = five
                 /\ latest_game_numbers' = latest_game_numbers
          /\ (up /\ ~up') => latest_game_numbers' = latest_game_numbers
          /\ \A g \in five :
                 g \notin DOMAIN latest_game_numbers =>
                     get_latest_game_number_from_db(g) = 0
      ]_vars

\* The process has been started again and a latest game number written
\* before the stop is still stored.
C24_Witness ==
    /\ up
    /\ crashes > 0
    /\ Len(handlers) > 0
    /\ handlers[1].killed \/ Terminal(handlers[1])
    /\ \E g \in DOMAIN latest_game_numbers : latest_game_numbers[g] > 0

(* ------------- role_manager.py behind line 137 (SpecRoles) ------------- *)
\* Lines 136-151 of main_bot.py and all of role_manager.py run only when the
\* debugging print of lines 131-134 returns.  SpecRoles is the handler with
\* that print returning: everything else is the code as written.  A role
\* that exists in the guild is a key of `holders`.  A coroutine runs from
\* the completion of one awaited Discord request to the sending of the
\* next; a request takes effect in the guild when it is sent.
RoleMessages == 4

\* The orders in which guild.members can list the members of S.
Orderings(S) ==
    {s \in [1..Cardinality(S) -> S] : \A i, j \in DOMAIN s : i # j => s[i] # s[j]}

\* get_members_with_role, role_manager.py:4-6.
get_members_with_role(role_name) ==
    IF role_name \in DOMAIN holders THEN holders[role_name] ELSE {}

RECURSIVE SkipNonHolders(_, _)
\* remove_role (8-13) returns False without awaiting for a member who does
\* not hold the role: the loop of lines 33-34 goes on to the next member.
SkipNonHolders(todo, with_role) ==
    IF todo = <<>> \/ Head(todo) \in with_role THEN todo
    ELSE SkipNonHolders(Tail(todo), with_role)

\* assign_role, role_manager.py:15-20, and what follows its return False
\* (main_bot.py:145, 151: the reply is sent without the notice).
assign_role(h) ==
    LET role_name == GAME_CONFIGS[h.game_key].player_role_name
    IN IF role_name \in DOMAIN holders
       THEN [holders |-> [holders EXCEPT ![role_name] = @ \cup {h.user_id}],
             h |-> [h EXCEPT !.members_with_role = <<>>, !.pc = "assign"]]
       ELSE [holders |-> holders,
             h |-> [h EXCEPT !.members_with_role = <<>>, !.pc = "send"]]

\* handle_game_role_assignment, role_manager.py:31-38, from the member
\* `todo` starts with: the loop up to the next remove_roles request, or,
\* when the loop is over, assign_role.
handle_game_role_assignment(h, todo) ==
    LET role_name == GAME_CONFIGS[h.game_key].player_role_name
        rest == SkipNonHolders(todo, get_members_with_role(role_name))
    IN IF rest # <<>>
       THEN [holders |-> [holders EXCEPT ![role_name] = @ \ {Head(rest)}],
             h |-> [h EXCEPT !.members_with_role = Tail(rest), !.pc = "revoke"]]
       ELSE assign_role(h)

\* main_bot.py:147: the confirmation with the role-grant notice.
with_notice(response) == "ack, you now have access"

\* The guild before the first start: the player roles exist and nobody holds
\* one, or the guild has no player roles.
InitRoles ==
    /\ up = FALSE
    /\ running = 0
    /\ handlers = <<>>
    /\ latest_game_numbers = <<>>
    /\ scores = EmptyBag
    /\ holders \in {[r \in RoleNames |-> {}], [r \in {} |-> {}]}
    /\ channel = <<>>
    /\ introductions = {}
    /\ crashes = 0
    /\ failures = MaxFailures
    /\ message = <<>>
    /\ commands = 0
    /\ returned = Pending

OnMessageRoles(user_id, content) ==
    /\ StartHandler(RoleMessages, user_id, "wordle", content)
    /\ UNCHANGED message

\* handle_game_message, lines 116-143 (151 for an old game number): read,
\* compare, update, then handle_game_role_assignment up to its first
\* awaited request.
TrackRoles(id) ==
    /\ running = id
    /\ handlers[id].pc = "track"
    /\ LET h == handlers[id]
           game_config == GAME_CONFIGS[h.game_key]
           latest_game_number == get_latest_game_number_from_db(game_config.name)
           current_game_number == CurrentGameNumber(h)
           h1 == [h EXCEPT !.response = create_acknowledgement,
                           !.latest_game_number = latest_game_number]
                 @@ [members_with_role |-> <<>>]
           members_with_role ==
               IF RoleBranch(current_game_number, latest_game_number) = "reset"
               THEN get_members_with_role(game_config.player_role_name)
               ELSE {}
       IN IF ShouldUpdate(current_game_number, latest_game_number)
          THEN /\ latest_game_numbers' =
                     update_latest_game_number_in_db(game_config.name,
                                                     current_game_number)
               /\ \E todo \in Orderings(members_with_role) :
                     LET r == handle_game_role_assignment(h1, todo)
                     IN /\ holders' = r.holders
                        /\ handlers' = [handlers EXCEPT ![id] = r.h]
          ELSE /\ handlers' = [handlers EXCEPT ![id] = [h1 EXCEPT !.pc = "send"]]
               /\ UNCHANGED <<latest_game_numbers, holders>>
    /\ running' = 0
    /\ UNCHANGED <<up, scores, channel, introductions, crashes, failures,
                   message, commands, returned>>

\* The awaited member.remove_roles of role_manager.py:12 completes: the
\* loop of lines 33-34 goes on.
Revoke(id) ==
    /\ up
    /\ running = 0
    /\ handlers[id].pc = "revoke"
    /\ LET r == handle_game_role_assignment(handlers[id],
                                            handlers[id].members_with_role)
       IN /\ holders' = r.holders
          /\ handlers' = [handlers EXCEPT ![id] = r.h]
    /\ UNCHANGED <<up, running, latest_game_numbers, scores, channel,
                   introductions, crashes, failures, message, commands,
                   returned>>

\* The awaited member.add_roles of role_manager.py:19 completes: success
\* is True, the notice is appended (main_bot.py:145-147) and the
\* introduction is sent to the chat channel (role_manager.py:44-62).
Assigned(id) ==
    /\ up
    /\ running = 0
    /\ handlers[id].pc = "assign"
    /\ handlers' = [handlers EXCEPT ![id].response = with_notice(@),
                                    ![id].pc = "introduce"]
    /\ introductions' = introductions \cup {id}
    /\ UNCHANGED <<up, running, latest_game_numbers, scores, holders, channel,
                   crashes, failures, message, commands, returned>>

\* The awaited chat_channel.send of role_manager.py:60 completes; line 151
\* sends the reply.
Introduced(id) ==
    /\ up
    /\ running = 0
    /\ handlers[id].pc = "introduce"
    /\ handlers' = [handlers EXCEPT ![id].pc = "send"]
    /\ UNCHANGED <<up, running, latest_game_numbers, scores, holders, channel,
                   introductions, crashes, failures, message, commands,
                   returned>>

NextRoles ==
    \/ OnReady
    \/ \E u \in Users, c \in Contents : OnMessageRoles(u, c)
    \/ \E id \in Ids : TrackRoles(id)
    \/ \E id \in Ids : Revoke(id)
    \/ \E id \in Ids : Assigned(id)
    \/ \E id \in Ids : Introduced(id)
    \/ \E id \in Ids : SendResponse(id)

SpecRoles == InitRoles /\ [][NextRoles]_vars

Idle == running = 0 /\ \A id \in Ids : Terminal(handlers[id])

\* The largest puzzle index among 0 and the persisted rows of a game.
LargestPersisted(game_name) ==
    Greatest({0} \cup {r.number : r \in {x \in BagToSet(scores) : x.game = game_name}})

RowsOf(game_name, table) ==
    [r \in {x \in BagToSet(table) : x.game = game_name} |-> CopiesIn(r, table)]

\* The games of the handlers that take a step: the handler that is started,
\* and every handler whose record changes.
ActingGames ==
    {handlers'[i].game_key :
        i \in {j \in 1..Len(handlers') :
                  j > Len(handlers) \/ handlers'[j] # handlers[j]}}

\* C27: a step of the ingestion of a message of game G leaves the latest
\* game number of every other game as it was, persists no row in another
\* game's table and neither grants nor revokes another game's role.
C27_OtherGamesUntouched ==
    [][\A k \in GameKeys \ ActingGames :
           /\ LatestKnownIndex(GAME_CONFIGS[k].name)'
                  = LatestKnownIndex(GAME_CONFIGS[k].name)
           /\ RowsOf(GAME_CONFIGS[k].name, scores')
                  = RowsOf(GAME_CONFIGS[k].name, scores)
           /\ holders'[GAME_CONFIGS[k].player_role_name]
                  = holders[GAME_CONFIGS[k].player_role_name]
      ]_vars

\* A Wordle and a Connections submission have both been ingested, and each
\* game has its own latest game number.
C27_Witness ==
    /\ Len(handlers) = 2
    /\ handlers[1].game_key # handlers[2].game_key
    /\ \A id \in Ids :
          /\ Finished(handlers[id])
          /\ CopiesIn(Row(handlers[id]), scores) = 1
          /\ LatestKnownIndex(GameName(handlers[id])) = CurrentGameNumber(handlers[id])
    /\ CurrentGameNumber(handlers[1]) # CurrentGameNumber(handlers[2])

\* The parse call of `returned` was made on a text that the matcher of the
\* same game accepts.
MatchedParse ==
    /\ returned # Pending
    /\ returned.call = "parse"
    /\ is_game_message(returned.game_key, message)

InitNoRole ==
    /\ up = FALSE
    /\ running = 0
    /\ handlers = <<>>
    /\ latest_game_numbers = <<>>
    /\ scores = EmptyBag
    /\ holders = [r \in {} |-> {}]
    /\ channel = <<>>
    /\ introductions = {}
    /\ crashes = 0
    /\ failures = MaxFailures
    /\ message = <<>>
    /\ commands = 0
    /\ returned = Pending

SpecNoRole == InitNoRole /\ [][NextDispatch]_vars

\* C30: a NEW_RECORD or CURRENT ingestion persists the record and updates
\* the latest game number whether or not the player role exists; when the
\* role does not exist the reply is the confirmation without the
\* role-grant notice and no introduction is posted; the notice and the
\* introduction appear exactly when the role was granted to the submitter.
C30_MissingRole ==
    \A id \in Ids :
        (/\ Finished(handlers[id])
         /\ Outcome(handlers[id]) \in {"NEW_RECORD", "CURRENT"})
        => /\ Row(handlers[id]) \in BagToSet(scores)
           /\ LatestKnownIndex(GameName(handlers[id]))
                  >= CurrentGameNumber(handlers[id])
           /\ IF RoleName(handlers[id]) \in DOMAIN holders
              THEN /\ channel[id] = <<with_notice(create_acknowledgement)>>
                   /\ id \in introductions
              ELSE /\ channel[id] = <<create_acknowledgement>>
                   /\ id \notin introductions

====
